---- MODULE Spec2Model ----
(***************************************************************************)
(* machine.I2C: the MicroPython-style I2C adapter over a busio.I2C handle  *)
(* (src/machine/i2c.py).  The handle is a recording mock: it keeps the     *)
(* lock flag, answers every call the adapter makes and may fail a          *)
(* transfer.  One step of the model is one call on the handle, together    *)
(* with the adapter code that runs before the next one.                    *)
(***************************************************************************)
EXTENDS Integers, Sequences, FiniteSets, TLC

\* ------------------------------------------------------------- bounds
NumCallers == 2      \* callers of the adapter(s) over the one handle
MaxLen == 2          \* longest caller-supplied buffer
MaxVec == 2          \* most buffers in a writevto vector
MaxRead == 2         \* largest nbytes of a read
MaxPolls == 2        \* failed try_lock calls the log records before it saturates

Callers == 1..NumCallers
Ext == NumCallers + 1            \* a user of the handle that is not an adapter
Addrs == {16, 66}                \* 0x10, 0x42
Bytes == {16, 171}               \* 0x10, 0xAB
Errors == {"NACK", "TIMEOUT"}    \* what a failing transfer raises (OSError kinds)
AddrSizes == {0, 8, 12, 16, 32, 64}
\* 0x00, 0x10, 0xFF, 0x100, 0x1234, 0xABCD, 0x10000, 0x12345678, 0x7FFFFFFF
MemAddrs == {0, 16, 255, 256, 4660, 43981, 65536, 305419896, 2147483647}

Min(a, b) == IF a < b THEN a ELSE b
Max(a, b) == IF a > b THEN a ELSE b

Buffers(k) == UNION {[1..m -> Bytes] : m \in 0..k}
Vectors == UNION {[1..m -> Buffers(MaxLen)] : m \in 0..MaxVec}
\* what busio's scan can answer: the responding addresses, ascending
ScanResults == {<<>>, <<16>>, <<66>>, <<16, 66>>}

\* ------------------------------------------------------------- calls
\* The arguments of one public call; a field a method does not take keeps
\* its default.
Op(kind, addr, buf, vector, n, memaddr, addrsize, stop) ==
  [kind |-> kind, addr |-> addr, buf |-> buf, vector |-> vector, n |-> n,
   memaddr |-> memaddr, addrsize |-> addrsize, stop |-> stop]

NoOp == Op("none", 0, <<>>, <<>>, 0, 0, 8, TRUE)
DeinitOp == Op("deinit", 0, <<>>, <<>>, 0, 0, 8, TRUE)

MemKinds == {"readfrom_mem", "readfrom_mem_into", "writeto_mem"}
IntoKinds == {"readfrom_into", "readfrom_mem_into"}

ScanOps == {Op("scan", 0, <<>>, <<>>, 0, 0, 8, TRUE)}
WritetoOps ==
  {Op("writeto", a, b, <<>>, 0, 0, 8, s) :
     a \in Addrs, b \in Buffers(MaxLen), s \in BOOLEAN}
ReadfromOps ==
  {Op("readfrom", a, <<>>, <<>>, n, 0, 8, s) :
     a \in Addrs, n \in 0..MaxRead, s \in BOOLEAN}
ReadfromIntoOps ==
  {Op("readfrom_into", a, b, <<>>, 0, 0, 8, s) :
     a \in Addrs, b \in Buffers(MaxRead), s \in BOOLEAN}
WritevtoOps ==
  {Op("writevto", a, <<>>, v, 0, 0, 8, s) :
     a \in Addrs, v \in Vectors, s \in BOOLEAN}
ReadfromMemOps ==
  {Op("readfrom_mem", a, <<>>, <<>>, n, m, z, TRUE) :
     a \in Addrs, n \in 0..MaxRead, m \in MemAddrs, z \in AddrSizes}
ReadfromMemIntoOps ==
  {Op("readfrom_mem_into", a, b, <<>>, 0, m, z, TRUE) :
     a \in Addrs, b \in Buffers(MaxRead), m \in MemAddrs, z \in AddrSizes}
WritetoMemOps ==
  {Op("writeto_mem", a, b, <<>>, 0, m, z, TRUE) :
     a \in Addrs, b \in Buffers(MaxLen), m \in MemAddrs, z \in AddrSizes}

\* every transaction a single caller can ask for
AllOps ==
  ScanOps \cup WritetoOps \cup ReadfromOps \cup ReadfromIntoOps \cup WritevtoOps
    \cup ReadfromMemOps \cup ReadfromMemIntoOps \cup WritetoMemOps

\* the transactions of the interleaved callers: a write, a read, a refused one
SharedOps ==
  {Op("writeto", 66, <<16>>, <<>>, 0, 0, 8, TRUE),
   Op("readfrom_mem", 66, <<>>, <<>>, 1, 16, 8, TRUE),
   Op("writeto_mem", 66, <<171>>, <<>>, 0, 16, 12, TRUE)}

\* the transaction of the callers that compete for the lock
WaitOps == {Op("writeto", 66, <<16>>, <<>>, 0, 0, 8, TRUE)}

\* ------------------------------------------------------------- helpers
\* _get_memaddr_bytes with the final raise lost: an unknown width is taken as 8
GetMemaddrBytesLenient(memaddr, addrsize) ==
  IF addrsize = 16 THEN
    [raised |-> FALSE, bytes |-> <<(memaddr \div 256) % 256, memaddr % 256>>]
  ELSE IF addrsize = 32 THEN
    [raised |-> FALSE,
     bytes |-> <<(memaddr \div 16777216) % 256, (memaddr \div 65536) % 256,
                 (memaddr \div 256) % 256, memaddr % 256>>]
  ELSE [raised |-> FALSE, bytes |-> <<memaddr % 256>>]

\* _get_memaddr_bytes with the bytes in the opposite order
GetMemaddrBytesLittleEndian(memaddr, addrsize) ==
  IF addrsize = 8 THEN [raised |-> FALSE, bytes |-> <<memaddr % 256>>]
  ELSE IF addrsize = 16 THEN
    [raised |-> FALSE, bytes |-> <<memaddr % 256, (memaddr \div 256) % 256>>]
  ELSE IF addrsize = 32 THEN
    [raised |-> FALSE,
     bytes |-> <<memaddr % 256, (memaddr \div 256) % 256,
                 (memaddr \div 65536) % 256, (memaddr \div 16777216) % 256>>]
  ELSE [raised |-> TRUE, bytes |-> <<>>]

\* _get_memaddr_bytes: x >> k is x \div 2^k and x & 0xFF is x % 256 for the
\* non-negative memaddr drawn here; raised stands for the ValueError.
GetMemaddrBytes(memaddr, addrsize) ==
  IF addrsize = 8 THEN [raised |-> FALSE, bytes |-> <<memaddr % 256>>]
  ELSE IF addrsize = 16 THEN
    [raised |-> FALSE, bytes |-> <<(memaddr \div 256) % 256, memaddr % 256>>]
  ELSE IF addrsize = 32 THEN
    [raised |-> FALSE,
     bytes |-> <<(memaddr \div 16777216) % 256, (memaddr \div 65536) % 256,
                 (memaddr \div 256) % 256, memaddr % 256>>]
  ELSE [raised |-> TRUE, bytes |-> <<>>]

\* Python's a[lo:hi] = b on a bytearray (0-based, bounds clipped to len(a))
SliceAssign(a, lo, hi, b) ==
  LET l == Min(lo, Len(a))
      h == Max(Min(hi, Len(a)), l)
  IN SubSeq(a, 1, l) \o b \o SubSeq(a, h + 1, Len(a))

RECURSIVE SumLen(_)
SumLen(vector) ==
  IF vector = <<>> THEN 0 ELSE Len(Head(vector)) + SumLen(Tail(vector))

\* the loop of writevto without "offset += l": every buffer lands at the start
RECURSIVE FillVectorNoAdvance(_, _, _, _)
FillVectorNoAdvance(full_buf, vector, i, offset) ==
  IF i > Len(vector) THEN full_buf
  ELSE LET b == vector[i]
           l == Len(b)
       IN FillVectorNoAdvance(SliceAssign(full_buf, offset, offset + l, b),
                              vector, i + 1, offset)

\* the loop of writevto from its i-th buffer on
RECURSIVE FillVector(_, _, _, _)
FillVector(full_buf, vector, i, offset) ==
  IF i > Len(vector) THEN full_buf
  ELSE LET b == vector[i]
           l == Len(b)
       IN FillVector(SliceAssign(full_buf, offset, offset + l, b), vector,
                     i + 1, offset + l)

WritevtoBuf(vector) ==
  FillVector([i \in 1..SumLen(vector) |-> 0], vector, 1, 0)

\* What a method computes before it calls _lock: the bytes it will write
\* and the length of the buffer it will have filled.
Prepare(o) ==
  LET m == GetMemaddrBytes(o.memaddr, o.addrsize)
  IN CASE o.kind = "scan" -> [raised |-> FALSE, out |-> <<>>, rlen |-> 0]
       [] o.kind = "writeto" -> [raised |-> FALSE, out |-> o.buf, rlen |-> 0]
       [] o.kind = "readfrom" -> [raised |-> FALSE, out |-> <<>>, rlen |-> o.n]
       [] o.kind = "readfrom_into" ->
            [raised |-> FALSE, out |-> <<>>, rlen |-> Len(o.buf)]
       [] o.kind = "writevto" ->
            [raised |-> FALSE, out |-> WritevtoBuf(o.vector), rlen |-> 0]
       [] o.kind = "readfrom_mem" ->
            [raised |-> m.raised, out |-> m.bytes, rlen |-> o.n]
       [] o.kind = "readfrom_mem_into" ->
            [raised |-> m.raised, out |-> m.bytes, rlen |-> Len(o.buf)]
       [] o.kind = "writeto_mem" ->
            [raised |-> m.raised, out |-> m.bytes \o o.buf, rlen |-> 0]

NoFrame == [raised |-> FALSE, out |-> <<>>, rlen |-> 0]

\* ------------------------------------------------------------- handle calls
\* One call on the handle as the mock records it: the arguments, the outcome
\* (res) and the bytes or list the handle handed back (data).
Event(call, addr, out, n, res, data) ==
  [call |-> call, addr |-> addr, out |-> out, n |-> n, res |-> res, data |-> data]

TryLockEvent(acquired) ==
  Event("try_lock", 0, <<>>, 0, IF acquired THEN "true" ELSE "false", <<>>)
UnlockEvent == Event("unlock", 0, <<>>, 0, "ok", <<>>)
DeinitEvent == Event("deinit", 0, <<>>, 0, "ok", <<>>)

\* the delegation with readfrom_mem reading without its address phase
DelegateCallSplit(o, f) ==
  CASE o.kind = "scan" -> Event("scan", 0, <<>>, 0, "ok", <<>>)
    [] o.kind \in {"writeto", "writevto", "writeto_mem"} ->
         Event("writeto", o.addr, f.out, 0, "ok", <<>>)
    [] o.kind \in {"readfrom", "readfrom_into", "readfrom_mem"} ->
         Event("readfrom_into", o.addr, <<>>, f.rlen, "ok", <<>>)
    [] o.kind = "readfrom_mem_into" ->
         Event("writeto_then_readfrom", o.addr, f.out, f.rlen, "ok", <<>>)

\* the transfer a method delegates to, with the arguments it passes
DelegateCall(o, f) ==
  CASE o.kind = "scan" -> Event("scan", 0, <<>>, 0, "ok", <<>>)
    [] o.kind \in {"writeto", "writevto", "writeto_mem"} ->
         Event("writeto", o.addr, f.out, 0, "ok", <<>>)
    [] o.kind \in {"readfrom", "readfrom_into"} ->
         Event("readfrom_into", o.addr, <<>>, f.rlen, "ok", <<>>)
    [] o.kind \in {"readfrom_mem", "readfrom_mem_into"} ->
         Event("writeto_then_readfrom", o.addr, f.out, f.rlen, "ok", <<>>)

\* what the handle can hand back when the transfer succeeds
Answers(o, f) ==
  IF o.kind = "scan" THEN ScanResults
  ELSE IF o.kind \in {"writeto", "writevto", "writeto_mem"} THEN {<<>>}
  ELSE [1..f.rlen -> Bytes]

Value(kind, int, seq) == [kind |-> kind, int |-> int, seq |-> seq]
None == Value("none", 0, <<>>)

\* the return values with writeto counting bytes only when stop is true
ReturnValueStopAware(o, f, data) ==
  CASE o.kind = "scan" -> Value("list", 0, data)
    [] o.kind \in {"writeto", "writevto"} ->
         IF o.stop THEN Value("int", Len(f.out), <<>>) ELSE None
    [] o.kind \in {"readfrom", "readfrom_mem"} -> Value("bytes", 0, data)
    [] OTHER -> None

\* the value a method returns after a successful transfer
ReturnValue(o, f, data) ==
  CASE o.kind = "scan" -> Value("list", 0, data)
    [] o.kind \in {"writeto", "writevto"} -> Value("int", Len(f.out), <<>>)
    [] o.kind \in {"readfrom", "readfrom_mem"} -> Value("bytes", 0, data)
    [] OTHER -> None

\* _lock as one try_lock whose answer is dropped
LockLoopNoCheck(acquired) == "xfer"

\* _lock giving up after a failed try_lock
LockLoopGiveUp(acquired) == IF acquired THEN "xfer" ELSE "done"

\* _lock: leave the loop when try_lock answered true, poll again otherwise
LockLoopNext(acquired) == IF acquired THEN "xfer" ELSE "lock"

\* unlock after the transfer but outside finally: skipped when it raised
AfterTransferNoFinally(res) == IF res = "ok" THEN "unlock" ELSE "done"

\* a failed transfer tried again
AfterTransferRetry(res) == IF res = "ok" THEN "unlock" ELSE "xfer"

\* try/finally: unlock follows the transfer whatever its outcome
AfterTransfer(res) == "unlock"

\* __exit__ releasing only when the body raised nothing
ExitCallsOnSuccess(e) == IF e = "none" THEN <<DeinitEvent>> ELSE <<>>

\* __exit__: the handle calls it makes, whatever exception the body raised
ExitCalls(e) == <<DeinitEvent>>

\* ------------------------------------------------------------- state
VARIABLES
  holder,   \* who holds the handle's lock: {} when it is free
  pc,       \* where each caller is: idle, lock, xfer, unlock, done, left
  op,       \* the arguments of each caller's current call
  frame,    \* the locals of the call: bytes to write, length to read
  log,      \* the handle calls the current call (or __exit__) has made
  ret,      \* the value the call returned
  err,      \* the exception the call raised, "none" when it did not
  inWith    \* whether the caller is inside a with-block of the adapter

vars == <<holder, pc, op, frame, log, ret, err, inWith>>

Init ==
  /\ holder = {}
  /\ pc = [c \in Callers |-> "idle"]
  /\ op = [c \in Callers |-> NoOp]
  /\ frame = [c \in Callers |-> NoFrame]
  /\ log = [c \in Callers |-> <<>>]
  /\ ret = [c \in Callers |-> None]
  /\ err = [c \in Callers |-> "none"]
  /\ inWith = [c \in Callers |-> FALSE]

\* between calls
CanCall(c) == pc[c] = "idle"

\* A transaction method is entered with arguments among ops: everything up
\* to its call of _lock.
Call(c, ops) ==
  /\ CanCall(c)
  /\ \E o \in ops :
       LET f == Prepare(o)
       IN /\ op' = [op EXCEPT ![c] = o]
          /\ frame' = [frame EXCEPT ![c] = f]
          /\ log' = [log EXCEPT ![c] = <<>>]
          /\ ret' = [ret EXCEPT ![c] = None]
          /\ err' = [err EXCEPT ![c] = IF f.raised THEN "ValueError" ELSE "none"]
          /\ pc' = [pc EXCEPT ![c] = IF f.raised THEN "done" ELSE "lock"]
  /\ UNCHANGED <<holder, inWith>>

\* the failed polls a log keeps are capped, the polls themselves are not
Polled(l, e) ==
  IF e.res = "false" /\ Len(l) >= MaxPolls THEN l ELSE Append(l, e)

\* One round of _lock's loop: try_lock, and time.sleep when it failed.
TryLock(c) ==
  /\ pc[c] = "lock"
  /\ LET acquired == holder = {}
     IN /\ holder' = IF acquired THEN {c} ELSE holder
        /\ log' = [log EXCEPT ![c] = Polled(@, TryLockEvent(acquired))]
        /\ pc' = [pc EXCEPT ![c] = LockLoopNext(acquired)]
  /\ UNCHANGED <<op, frame, ret, err, inWith>>

\* The delegate call inside try: it returns, or it raises.
Transfer(c) ==
  /\ pc[c] = "xfer"
  /\ \E res \in {"ok"} \cup Errors :
       \E data \in (IF res = "ok" THEN Answers(op[c], frame[c]) ELSE {<<>>}) :
         /\ log' = [log EXCEPT ![c] =
                      Append(@, [DelegateCall(op[c], frame[c])
                                   EXCEPT !.res = res, !.data = data])]
         /\ ret' = [ret EXCEPT ![c] =
                      IF res = "ok" THEN ReturnValue(op[c], frame[c], data) ELSE None]
         /\ err' = [err EXCEPT ![c] = IF res = "ok" THEN "none" ELSE res]
         /\ op' = [op EXCEPT ![c].buf =
                     IF res = "ok" /\ op[c].kind \in IntoKinds THEN data ELSE @]
         /\ pc' = [pc EXCEPT ![c] = AfterTransfer(res)]
  /\ UNCHANGED <<holder, frame, inWith>>

\* finally: cp_i2c.unlock()
Unlock(c) ==
  /\ pc[c] = "unlock"
  /\ holder' = {}
  /\ log' = [log EXCEPT ![c] = Append(@, UnlockEvent)]
  /\ pc' = [pc EXCEPT ![c] = "done"]
  /\ UNCHANGED <<op, frame, ret, err, inWith>>

\* deinit(), called directly; the body of a with-block makes transactions only
Deinit(c) ==
  /\ CanCall(c)
  /\ ~inWith[c]
  /\ op' = [op EXCEPT ![c] = DeinitOp]
  /\ frame' = [frame EXCEPT ![c] = NoFrame]
  /\ log' = [log EXCEPT ![c] = <<DeinitEvent>>]
  /\ ret' = [ret EXCEPT ![c] = None]
  /\ err' = [err EXCEPT ![c] = "none"]
  /\ pc' = [pc EXCEPT ![c] = "done"]
  /\ UNCHANGED <<holder, inWith>>

\* with adapter: __enter__
EnterWith(c) ==
  /\ CanCall(c)
  /\ ~inWith[c]
  /\ inWith' = [inWith EXCEPT ![c] = TRUE]
  /\ op' = [op EXCEPT ![c] = NoOp]
  /\ frame' = [frame EXCEPT ![c] = NoFrame]
  /\ log' = [log EXCEPT ![c] = <<>>]
  /\ ret' = [ret EXCEPT ![c] = None]
  /\ err' = [err EXCEPT ![c] = "none"]
  /\ pc' = [pc EXCEPT ![c] = "idle"]
  /\ UNCHANGED holder

\* The with-block is left, by the body's end or by its exception: __exit__.
\* It returns None, so the exception goes on to the caller.
ExitWith(c) ==
  /\ inWith[c]
  /\ pc[c] \in {"idle", "done"}
  /\ inWith' = [inWith EXCEPT ![c] = FALSE]
  /\ log' = [log EXCEPT ![c] = ExitCalls(err[c])]
  /\ op' = [op EXCEPT ![c] = NoOp]
  /\ frame' = [frame EXCEPT ![c] = NoFrame]
  /\ ret' = [ret EXCEPT ![c] = None]
  /\ pc' = [pc EXCEPT ![c] = "left"]
  /\ UNCHANGED <<holder, err>>

\* The caller has the call's outcome and goes on: to its next call, or, when
\* an exception left the with-block's body, out of the block by ExitWith.
Return(c) ==
  /\ pc[c] \in {"done", "left"}
  /\ inWith[c] => err[c] = "none"
  /\ op' = [op EXCEPT ![c] = NoOp]
  /\ frame' = [frame EXCEPT ![c] = NoFrame]
  /\ log' = [log EXCEPT ![c] = <<>>]
  /\ ret' = [ret EXCEPT ![c] = None]
  /\ err' = [err EXCEPT ![c] = "none"]
  /\ pc' = [pc EXCEPT ![c] = "idle"]
  /\ UNCHANGED <<holder, inWith>>

\* another user of the handle takes its lock, and gives it back
ExtLock ==
  /\ holder = {}
  /\ holder' = {Ext}
  /\ UNCHANGED <<pc, op, frame, log, ret, err, inWith>>

ExtUnlock ==
  /\ holder = {Ext}
  /\ holder' = {}
  /\ UNCHANGED <<pc, op, frame, log, ret, err, inWith>>

\* One caller of the adapter, every argument, and the other user of the handle.
Next ==
  \/ Call(1, AllOps)
  \/ TryLock(1)
  \/ Transfer(1)
  \/ Unlock(1)
  \/ Deinit(1)
  \/ EnterWith(1)
  \/ ExitWith(1)
  \/ Return(1)
  \/ ExtLock
  \/ ExtUnlock

Spec == Init /\ [][Next]_vars

\* Several callers of the one handle, their transactions interleaved step by
\* step, and the other user of the handle.
SharedNext ==
  \/ \E c \in Callers : Call(c, SharedOps)
  \/ \E c \in Callers : TryLock(c)
  \/ \E c \in Callers : Transfer(c)
  \/ \E c \in Callers : Unlock(c)
  \/ \E c \in Callers : Return(c)
  \/ ExtLock
  \/ ExtUnlock

SharedSpec == Init /\ [][SharedNext]_vars

\* The lock loop's exit: try_lock finding the lock free.
Acquire(c) == TryLock(c) /\ holder = {}

\* What keeps running: a caller inside a transaction goes on to its next
\* step (the lock loop polls again after each sleep), and the other user of
\* the handle gives the lock back.  Nothing makes a poll fall on a moment at
\* which the lock is free.
Fairness ==
  /\ \A c \in Callers : WF_vars(TryLock(c) \/ Transfer(c) \/ Unlock(c))
  /\ WF_vars(ExtUnlock)

\* Several callers competing for the lock of the one handle.
WaitNext ==
  \/ \E c \in Callers : Call(c, WaitOps)
  \/ \E c \in Callers : TryLock(c)
  \/ \E c \in Callers : Transfer(c)
  \/ \E c \in Callers : Unlock(c)
  \/ \E c \in Callers : Return(c)
  \/ ExtLock
  \/ ExtUnlock

FairSpec == Init /\ [][WaitNext]_vars /\ Fairness

\* ------------------------------------------------------------- properties
TransferCalls == {"scan", "writeto", "readfrom_into", "writeto_then_readfrom"}
IsTransfer(e) == e.call \in TransferCalls
NotFailedPoll(e) == e # TryLockEvent(FALSE)

\* the log without its failed polls
StripPolls(l) == SelectSeq(l, NotFailedPoll)
Transfers(l) == SelectSeq(l, IsTransfer)

ValidAddrsize(o) == o.kind \in MemKinds => o.addrsize \in {8, 16, 32}

\* one or more try_lock calls, all of them before the one unlock call
LockThenUnlock(l) ==
  \E u \in DOMAIN l :
    /\ l[u].call = "unlock"
    /\ \A i \in DOMAIN l : l[i].call = "unlock" => i = u
    /\ \E i \in 1..(u - 1) : l[i].call = "try_lock"
    /\ \A i \in DOMAIN l : l[i].call = "try_lock" => i < u

\* the calls of one transaction: the successful try_lock, the transfer e, unlock
Bracket(e) == <<TryLockEvent(TRUE), e, UnlockEvent>>

\* C1 as stated: every finished public operation, deinit included, has called
\* try_lock one or more times and then unlock exactly once.
C1_EveryOperationLocks ==
  \A c \in Callers : pc[c] = "done" => LockThenUnlock(log[c])

\* C1 as amended: every finished transaction (any method but deinit, with an
\* addrsize of 8, 16 or 32 where it takes one) has called try_lock one or more
\* times and then unlock exactly once, whether its transfer returned or
\* raised; deinit and a refused addrsize make no try_lock and no unlock call.
C1_TransactionsLock ==
  \A c \in Callers :
    pc[c] = "done" =>
      IF op[c].kind # "deinit" /\ ValidAddrsize(op[c])
      THEN /\ LockThenUnlock(log[c])
           /\ Len(Transfers(log[c])) = 1
      ELSE \A i \in DOMAIN log[c] : log[c][i].call \notin {"try_lock", "unlock"}

\* a transaction that polled in vain, got the lock, failed its transfer and unlocked
C1_Witness ==
  /\ pc[1] = "done"
  /\ err[1] \in Errors
  /\ log[1][1] = TryLockEvent(FALSE)
  /\ LockThenUnlock(log[1])

\* C3: a memory method called with an addrsize other than 8, 16, 32 has raised
\* the argument error with no call made on the handle, and does not hold the lock.
C3_BadAddrsizeTouchesNothing ==
  \A c \in Callers :
    ~ValidAddrsize(op[c]) =>
      /\ pc[c] = "done"
      /\ err[c] = "ValueError"
      /\ log[c] = <<>>
      /\ c \notin holder

\* addrsize 12 refused while the other user holds the lock, which stays held
C3_Witness ==
  /\ op[1].kind = "writeto_mem"
  /\ op[1].addrsize = 12
  /\ err[1] = "ValueError"
  /\ holder = {Ext}

\* memaddr fits in addrsize bits
Representable(memaddr, addrsize) == memaddr \div (2 ^ (addrsize - 8)) < 256

\* the number a byte sequence spells, most significant byte first
RECURSIVE BigEndianValue(_)
BigEndianValue(s) ==
  IF s = <<>> THEN 0
  ELSE BigEndianValue(SubSeq(s, 1, Len(s) - 1)) * 256 + s[Len(s)]

\* C4: for addrsize 8, 16, 32 and a memaddr that fits, the bytes written ahead
\* of the data are addrsize/8 bytes spelling memaddr most significant first.
C4_PrefixBigEndian ==
  \A c \in Callers :
    (/\ op[c].kind \in MemKinds
     /\ op[c].addrsize \in {8, 16, 32}
     /\ Representable(op[c].memaddr, op[c].addrsize)) =>
      LET k == op[c].addrsize \div 8
          prefix == SubSeq(frame[c].out, 1, k)
      IN /\ Len(frame[c].out) = k + (IF op[c].kind = "writeto_mem"
                                     THEN Len(op[c].buf) ELSE 0)
         /\ Len(prefix) = k
         /\ \A i \in 1..k : prefix[i] \in 0..255
         /\ BigEndianValue(prefix) = op[c].memaddr
         /\ \A i \in DOMAIN log[c] :
              IsTransfer(log[c][i]) => SubSeq(log[c][i].out, 1, k) = prefix

\* memaddr 0x1234 at addrsize 16 went out as [0x12, 0x34]
C4_Witness ==
  /\ op[1].kind = "readfrom_mem"
  /\ op[1].memaddr = 4660
  /\ op[1].addrsize = 16
  /\ Len(Transfers(log[1])) = 1
  /\ Transfers(log[1])[1].out = <<18, 52>>

\* b1 + ... + bk
RECURSIVE Concat(_)
Concat(vector) ==
  IF vector = <<>> THEN <<>> ELSE Head(vector) \o Concat(Tail(vector))

\* C5: a finished writevto has made the calls of writeto on the concatenation
\* of its buffers in list order (one lock bracket around one delegate write),
\* and has returned the sum of their lengths.
C5_WritevtoIsWritetoOfConcat ==
  \A c \in Callers :
    (pc[c] = "done" /\ op[c].kind = "writevto") =>
      LET w == Op("writeto", op[c].addr, Concat(op[c].vector), <<>>, 0, 0, 8,
                  op[c].stop)
          res == IF err[c] = "none" THEN "ok" ELSE err[c]
      IN /\ StripPolls(log[c]) =
              Bracket([DelegateCall(w, Prepare(w)) EXCEPT !.res = res])
         /\ err[c] = "none" =>
              ret[c] = Value("int", SumLen(op[c].vector), <<>>)

\* two buffers of different lengths, written as their concatenation
C5_Witness ==
  /\ pc[1] = "done"
  /\ op[1].kind = "writevto"
  /\ op[1].vector = << <<171, 16>>, <<16>> >>
  /\ Transfers(log[1])[1].out = <<171, 16, 16>>
  /\ ret[1] = Value("int", 3, <<>>)

\* C6: a finished writeto has made one delegate write of buf inside one lock
\* bracket and, when that write succeeded, has returned len(buf) without
\* raising, for stop true and stop false alike.
C6_WritetoIgnoresStop ==
  \A c \in Callers :
    (pc[c] = "done" /\ op[c].kind = "writeto") =>
      LET res == IF err[c] = "none" THEN "ok" ELSE err[c]
      IN /\ StripPolls(log[c]) =
              Bracket(Event("writeto", op[c].addr, op[c].buf, 0, res, <<>>))
         /\ err[c] \in Errors \cup {"none"}
         /\ err[c] = "none" => ret[c] = Value("int", Len(op[c].buf), <<>>)

\* writeto with stop false returned the length of its two-byte buffer
C6_Witness ==
  /\ pc[1] = "done"
  /\ op[1].kind = "writeto"
  /\ ~op[1].stop
  /\ Len(op[1].buf) = 2
  /\ ret[1] = Value("int", 2, <<>>)

\* C7: a finished readfrom_mem has made, inside one lock bracket, exactly one
\* write-then-read call whose write phase is the serialized memaddr and whose
\* read buffer has length n, and has returned the n bytes the handle put there.
C7_ReadfromMemCombined ==
  \A c \in Callers :
    (pc[c] = "done" /\ op[c].kind = "readfrom_mem" /\ ValidAddrsize(op[c])) =>
      LET l == StripPolls(log[c])
      IN /\ Len(l) = 3
         /\ l = Bracket(l[2])
         /\ l[2].call = "writeto_then_readfrom"
         /\ l[2].addr = op[c].addr
         /\ l[2].out = GetMemaddrBytes(op[c].memaddr, op[c].addrsize).bytes
         /\ l[2].n = op[c].n
         /\ l[2].res = "ok" =>
              /\ err[c] = "none"
              /\ Len(l[2].data) = op[c].n
              /\ ret[c] = Value("bytes", 0, l[2].data)

\* readfrom_mem(0x42, 0x10, MaxRead, addrsize=8): address phase [0x10]
C7_Witness ==
  /\ pc[1] = "done"
  /\ op[1].kind = "readfrom_mem"
  /\ op[1].addr = 66
  /\ op[1].memaddr = 16
  /\ op[1].addrsize = 8
  /\ op[1].n = MaxRead
  /\ Transfers(log[1])[1].out = <<16>>
  /\ ret[1].kind = "bytes"
  /\ Len(ret[1].seq) = MaxRead

\* C8: a finished deinit() has called the handle's deinit exactly once, and a
\* with-block that was left has called it exactly once, whether its body
\* ended or raised.
C8_DeinitOnce ==
  \A c \in Callers :
    /\ (pc[c] = "done" /\ op[c].kind = "deinit") => log[c] = <<DeinitEvent>>
    /\ pc[c] = "left" => log[c] = <<DeinitEvent>>

\* a with-block left by the exception of a failed transfer
C8_Witness ==
  /\ pc[1] = "left"
  /\ err[1] \in Errors
  /\ log[1] = <<DeinitEvent>>

\* C10: a transaction whose transfer failed is on its way out (about to
\* unlock, or finished): it has made that one transfer call and no other, its
\* exception is the one the handle raised, and once finished it has unlocked
\* and no longer holds the lock.
C10_FailureNotRetried ==
  \A c \in Callers :
    (err[c] \in Errors /\ pc[c] # "left") =>
      /\ pc[c] \in {"unlock", "done"}
      /\ Len(Transfers(log[c])) = 1
      /\ Transfers(log[c])[1].res = err[c]
      /\ pc[c] = "done" =>
           /\ log[c][Len(log[c])] = UnlockEvent
           /\ c \notin holder

\* a failed transfer reported, the lock free for the next transaction
C10_Witness ==
  /\ pc[1] = "done"
  /\ err[1] = "NACK"
  /\ Transfers(log[1])[1].res = "NACK"
  /\ holder = {}

\* callers between their successful try_lock and their unlock
InTransaction == {c \in Callers : pc[c] \in {"xfer", "unlock"}}

\* C2: at most one caller is between its successful try_lock and its unlock,
\* and that caller holds the handle's lock, so every transfer runs under the
\* lock and none starts inside another caller's transaction.
C2_MutualExclusion ==
  /\ Cardinality(InTransaction) <= 1
  /\ \A c \in InTransaction : holder = {c}

\* one caller about to transfer while another has polled in vain
C2_Witness ==
  /\ pc[1] = "xfer"
  /\ pc[2] = "lock"
  /\ log[2] # <<>>
  /\ log[2][1] = TryLockEvent(FALSE)

\* a caller in the lock loop leaves it only by getting the free lock; until
\* then it makes no transfer and raises nothing
LoopLeftOnlyByAcquiring ==
  \A c \in Callers :
    pc[c] = "lock" =>
      \/ /\ pc'[c] = "lock"
         /\ err'[c] = err[c]
         /\ Transfers(log'[c]) = <<>>
      \/ /\ holder = {}
         /\ holder' = {c}
         /\ pc'[c] = "xfer"

\* C9 as stated: the lock loop never gives up, and when every holder gives
\* the lock back and the waiting caller keeps being scheduled, the caller
\* acquires the lock and its transaction completes.
C9_WaiterAlwaysAcquires ==
  /\ [][LoopLeftOnlyByAcquiring]_vars
  /\ \A c \in Callers : (pc[c] = "lock") ~> (pc[c] = "done")

\* C9 as amended: the lock loop never gives up: a waiting caller stays in the
\* loop, transferring and raising nothing, until a poll of its own finds the
\* lock free; a caller that has the lock completes its transaction and gives
\* the lock back; and a waiting caller acquires the lock provided its polls,
\* which can succeed again and again, do not all fall while the lock is held
\* (strong fairness of the acquiring poll).
C9_LockNeverGivesUp ==
  /\ [][LoopLeftOnlyByAcquiring]_vars
  /\ \A c \in Callers : (pc[c] = "xfer") ~> (pc[c] = "done" /\ holder # {c})
  /\ \A c \in Callers : SF_vars(Acquire(c)) => ((pc[c] = "lock") ~> (pc[c] = "done"))

\* a caller that polled in vain and then completed its transaction
C9_Witness ==
  /\ pc[2] = "done"
  /\ log[2] # <<>>
  /\ log[2][1] = TryLockEvent(FALSE)
  /\ Len(Transfers(log[2])) = 1

====
